---- MODULE Spec2Model ----
(***************************************************************************)
(* Model of src/backtrace/dbghelp.rs: the dbghelp-based stack walker       *)
(* (trace, Frame, init_frame) and the manual x86 context capture routine   *)
(* rtl_capture_context.                                                    *)
(*                                                                         *)
(* Machine words are scaled down (TLC integers are 32 bits wide): a        *)
(* "32-bit" register is Bits32 bits wide and a "64-bit" one Bits64 bits,   *)
(* with Bits32 < Bits64, so that widening (`as u64`) and truncation        *)
(* (`as *mut c_void`) are modelled as the arithmetic they are.             *)
(***************************************************************************)
EXTENDS Integers, Sequences, FiniteSets, TLC

\* ------------------------------------------------------------------ bounds
\* Scaled width of a 32-bit word and of a 64-bit word.
Bits32 == 2
Bits64 == 4
\* Deepest call stack the walking primitive is given to unwind.
MaxDepth == 2

RECURSIVE Pow2(_)
Pow2(n) == IF n = 0 THEN 1 ELSE 2 * Pow2(n - 1)

\* ------------------------------------------------------- program constants
\* ADDRESS_MODE: mem::zeroed() leaves Mode = 0 (AddrMode1616); flat is 3.
ZeroedMode == 0
AddrModeFlat == 3
ADDRESS_MODE == 0..3

Archs == {"x86", "x86_64", "arm", "aarch64"}
IMAGE_FILE_MACHINE_AMD64 == "IMAGE_FILE_MACHINE_AMD64"
IMAGE_FILE_MACHINE_I386 == "IMAGE_FILE_MACHINE_I386"
IMAGE_FILE_MACHINE_ARM64 == "IMAGE_FILE_MACHINE_ARM64"
IMAGE_FILE_MACHINE_ARMNT == "IMAGE_FILE_MACHINE_ARMNT"

\* The Architecture Tag of a build target (the machine type the walking
\* primitive needs for that CPU).
ArchTag(a) ==
    CASE a = "x86_64" -> IMAGE_FILE_MACHINE_AMD64
      [] a = "x86" -> IMAGE_FILE_MACHINE_I386
      [] a = "aarch64" -> IMAGE_FILE_MACHINE_ARM64
      [] a = "arm" -> IMAGE_FILE_MACHINE_ARMNT

\* Width of a general register / of a pointer on the build target.
RegBits(a) == IF a \in {"x86_64", "aarch64"} THEN Bits64 ELSE Bits32
RegVals(a) == 0..(Pow2(RegBits(a)) - 1)

Threads == {"t1", "t2"}
NoThread == "none"

VARIABLES
    target_arch,       \* cfg(target_arch) of the build
    StackWalkExAvail,  \* whether the loaded dbghelp.dll exports StackWalkEx
    lock,              \* holder of the process-wide dbghelp lock, or NoThread
    pc,                \* per thread: position inside trace
    context,           \* per thread: the captured CONTEXT (MyContext)
    stackDepth,        \* per thread: frames the primitive can still resolve
    frame,             \* per thread: super::Frame { inner }
    image,             \* per thread: the WORD init_frame returned
    walker,            \* per thread: the walking primitive the match arm uses
    nprim,             \* per thread: calls of the walking primitive
    ninit,             \* per thread: calls of init_frame
    left,              \* per thread: records the primitive left on TRUE
    emitted,           \* per thread: frames handed to cb, in order
    cbStop,            \* per thread: index of the cb call that returned false
    cause,             \* per thread: why the primitive returned FALSE
    initOk,            \* per thread: result of dbghelp::init() in this call
    cpu,               \* rtl_capture_context: the x86 registers
    mem,               \* rtl_capture_context: memory (stack and CONTEXT)
    ip_idx,            \* rtl_capture_context: index of the next instruction
    site,              \* rtl_capture_context: the call site it runs at
    probe              \* init_frame on its own: the record and the context

walkVars == <<target_arch, StackWalkExAvail, lock, pc, context, stackDepth,
              frame, image, walker, nprim, ninit, left, emitted, cbStop,
              cause, initOk>>
capVars == <<cpu, mem, ip_idx, site>>
vars == <<walkVars, capVars, probe>>

\* ------------------------------------------------------------------ Frame
\* ADDRESS64 and STACKFRAME_EX / STACKFRAME64 as mem::zeroed() leaves them.
ZeroedAddress == [Offset |-> 0, Mode |-> ZeroedMode]
ZeroedStackFrame ==
    [AddrPC |-> ZeroedAddress, AddrStack |-> ZeroedAddress,
     AddrFrame |-> ZeroedAddress]
FrameNew(sf) == [tag |-> "New", sf |-> sf]
FrameOld(sf) == [tag |-> "Old", sf |-> sf]
NoFrame == [tag |-> "None", sf |-> ZeroedStackFrame]

\* `x as u64` and `x as *mut c_void` on the build target.
AsU64(x) == x % Pow2(Bits64)
AsPtr(x) == x % Pow2(RegBits(target_arch))

addr_pc(f) ==
    CASE f.tag = "New" -> f.sf.AddrPC
      [] f.tag = "Old" -> f.sf.AddrPC
addr_stack(f) ==
    CASE f.tag = "New" -> f.sf.AddrStack
      [] f.tag = "Old" -> f.sf.AddrStack
\* The source has no reader of AddrFrame; this is the field addr_frame_mut
\* gives access to.
addr_frame(f) ==
    CASE f.tag = "New" -> f.sf.AddrFrame
      [] f.tag = "Old" -> f.sf.AddrFrame
ip(f) == AsPtr(addr_pc(f).Offset)
sp(f) == AsPtr(addr_stack(f).Offset)
symbol_address(f) == ip(f)

\* *frame.addr_pc_mut() = a, and so on: the tag is kept, one field changes.
set_addr_pc(f, a) ==
    CASE f.tag = "New" -> [f EXCEPT !.sf.AddrPC = a]
      [] f.tag = "Old" -> [f EXCEPT !.sf.AddrPC = a]
set_addr_stack(f, a) ==
    CASE f.tag = "New" -> [f EXCEPT !.sf.AddrStack = a]
      [] f.tag = "Old" -> [f EXCEPT !.sf.AddrStack = a]
set_addr_frame(f, a) ==
    CASE f.tag = "New" -> [f EXCEPT !.sf.AddrFrame = a]
      [] f.tag = "Old" -> [f EXCEPT !.sf.AddrFrame = a]

AllFlat(f) ==
    /\ addr_pc(f).Mode = AddrModeFlat
    /\ addr_stack(f).Mode = AddrModeFlat
    /\ addr_frame(f).Mode = AddrModeFlat

\* ------------------------------------------------------------- init_frame
\* The registers init_frame reads on each build target: program counter,
\* stack pointer, frame pointer.
PcReg(a) == CASE a = "x86_64" -> "Rip" [] a = "x86" -> "Eip" [] OTHER -> "Pc"
SpReg(a) == CASE a = "x86_64" -> "Rsp" [] a = "x86" -> "Esp" [] OTHER -> "Sp"
FpReg(a) ==
    CASE a = "x86_64" -> "Rbp"
      [] a = "x86" -> "Ebp"
      [] a = "aarch64" -> "Fp"
      [] a = "arm" -> "R11"
CtxRegs(a) == {PcReg(a), SpReg(a), FpReg(a)}
\* A CONTEXT of the build target, reduced to the registers the walker reads.
Contexts(a) == [CtxRegs(a) -> RegVals(a)]
ZeroedContext(a) == [r \in CtxRegs(a) |-> 0]

\* Mutant: the frame-pointer field's Mode is left as zeroed.
init_frame_fields_frame_mode_unset(f, pcv, spv, fpv) ==
    LET f1 == set_addr_pc(f, [addr_pc(f) EXCEPT !.Offset = AsU64(pcv)])
        f2 == set_addr_pc(f1, [addr_pc(f1) EXCEPT !.Mode = AddrModeFlat])
        f3 == set_addr_stack(f2, [addr_stack(f2) EXCEPT !.Offset = AsU64(spv)])
        f4 == set_addr_stack(f3, [addr_stack(f3) EXCEPT !.Mode = AddrModeFlat])
        f5 == set_addr_frame(f4, [addr_frame(f4) EXCEPT !.Offset = AsU64(fpv)])
    IN  f5

\* Mutant: the stack-pointer and frame-pointer registers are exchanged.
init_frame_fields_sp_fp_swapped(f, pcv, spv, fpv) ==
    LET f1 == set_addr_pc(f, [addr_pc(f) EXCEPT !.Offset = AsU64(pcv)])
        f2 == set_addr_pc(f1, [addr_pc(f1) EXCEPT !.Mode = AddrModeFlat])
        f3 == set_addr_stack(f2, [addr_stack(f2) EXCEPT !.Offset = AsU64(fpv)])
        f4 == set_addr_stack(f3, [addr_stack(f3) EXCEPT !.Mode = AddrModeFlat])
        f5 == set_addr_frame(f4, [addr_frame(f4) EXCEPT !.Offset = AsU64(spv)])
        f6 == set_addr_frame(f5, [addr_frame(f5) EXCEPT !.Mode = AddrModeFlat])
    IN  f6

\* The six assignments every cfg variant of init_frame makes, in order.
init_frame_fields(f, pcv, spv, fpv) ==
    LET f1 == set_addr_pc(f, [addr_pc(f) EXCEPT !.Offset = AsU64(pcv)])
        f2 == set_addr_pc(f1, [addr_pc(f1) EXCEPT !.Mode = AddrModeFlat])
        f3 == set_addr_stack(f2, [addr_stack(f2) EXCEPT !.Offset = AsU64(spv)])
        f4 == set_addr_stack(f3, [addr_stack(f3) EXCEPT !.Mode = AddrModeFlat])
        f5 == set_addr_frame(f4, [addr_frame(f4) EXCEPT !.Offset = AsU64(fpv)])
        f6 == set_addr_frame(f5, [addr_frame(f5) EXCEPT !.Mode = AddrModeFlat])
    IN  f6

init_frame_x86_64(f, ctx) ==
    [frame |-> init_frame_fields(f, ctx["Rip"], ctx["Rsp"], ctx["Rbp"]),
     image |-> IMAGE_FILE_MACHINE_AMD64]
init_frame_x86(f, ctx) ==
    [frame |-> init_frame_fields(f, ctx["Eip"], ctx["Esp"], ctx["Ebp"]),
     image |-> IMAGE_FILE_MACHINE_I386]
init_frame_aarch64(f, ctx) ==
    [frame |-> init_frame_fields(f, ctx["Pc"], ctx["Sp"], ctx["Fp"]),
     image |-> IMAGE_FILE_MACHINE_ARM64]
init_frame_arm(f, ctx) ==
    [frame |-> init_frame_fields(f, ctx["Pc"], ctx["Sp"], ctx["R11"]),
     image |-> IMAGE_FILE_MACHINE_ARMNT]

\* init_frame: the variant cfg(target_arch) compiles in. The frame is
\* updated in place and the WORD is returned: both are in the result.
init_frame(f, ctx) ==
    CASE target_arch = "x86_64" -> init_frame_x86_64(f, ctx)
      [] target_arch = "x86" -> init_frame_x86(f, ctx)
      [] target_arch = "aarch64" -> init_frame_aarch64(f, ctx)
      [] target_arch = "arm" -> init_frame_arm(f, ctx)

\* ------------------------------------------------------ external services
\* dbghelp::init(): blocks until the process-wide dbghelp lock is free, then
\* either fails (Err(()), the lock released again) or returns the handle,
\* which holds the lock until it is dropped.
dbghelp_init(t) ==
    IF lock = NoThread
    THEN {[ok |-> TRUE, lock |-> t], [ok |-> FALSE, lock |-> NoThread]}
    ELSE {}

\* Dropping the handle (end of trace's scope) releases the lock.
dbghelp_drop(t) == IF lock = t THEN NoThread ELSE lock

\* (*dbghelp.dbghelp()).StackWalkEx(): Some(f) exactly when the loaded
\* library exports the function.
StackWalkEx_lookup == StackWalkExAvail

\* What RtlCaptureContext / rtl_capture_context hand to trace: a CONTEXT of
\* the build target.
CapturedContexts(a) ==
    {[r \in CtxRegs(a) |->
        CASE r = PcReg(a) -> 1
          [] r = SpReg(a) -> 2
          [] r = FpReg(a) -> 3]}

\* One step up the stack, as the primitive writes it into the record.
Unwind(a) == [a EXCEPT !.Offset = (a.Offset + 1) % Pow2(Bits64)]

\* StackWalkEx / StackWalk64 on the record `f` after `n` earlier calls with
\* `depth` resolvable frames: the outcomes the call can have. It returns TRUE
\* with the record's three address fields rewritten in place (offsets of the
\* next frame, and whatever ADDRESS_MODE it reports for it), or FALSE because
\* the stack is exhausted or because a frame cannot be resolved. The tag of
\* the enum lies outside the record the pointer names and is never written.
StackWalk(f, n, depth) ==
    {[ret |-> TRUE, cause |-> "none",
      frame |-> [f EXCEPT !.sf = [AddrPC |-> [Unwind(f.sf.AddrPC) EXCEPT !.Mode = m],
                                  AddrStack |-> [Unwind(f.sf.AddrStack) EXCEPT !.Mode = m],
                                  AddrFrame |-> [Unwind(f.sf.AddrFrame) EXCEPT !.Mode = m]]]]
        : m \in IF n < depth THEN ADDRESS_MODE ELSE {}}
    \cup
    {[ret |-> FALSE, frame |-> f,
      cause |-> IF n < depth THEN "unresolved" ELSE "exhausted"]}

\* ------------------------------------------------------------------ trace
Terminal == {"Done", "Aborted", "Unavailable"}

\* A call of trace: its locals are fresh (line 92-97).
trace_call(t) ==
    /\ pc[t] \in Terminal
    /\ pc' = [pc EXCEPT ![t] = "Start"]
    /\ context' = [context EXCEPT ![t] = ZeroedContext(target_arch)]
    /\ frame' = [frame EXCEPT ![t] = NoFrame]
    /\ image' = [image EXCEPT ![t] = "none"]
    /\ walker' = [walker EXCEPT ![t] = "none"]
    /\ nprim' = [nprim EXCEPT ![t] = 0]
    /\ ninit' = [ninit EXCEPT ![t] = 0]
    /\ left' = [left EXCEPT ![t] = <<>>]
    /\ emitted' = [emitted EXCEPT ![t] = <<>>]
    /\ cbStop' = [cbStop EXCEPT ![t] = 0]
    /\ cause' = [cause EXCEPT ![t] = "none"]
    /\ initOk' = [initOk EXCEPT ![t] = "pending"]
    /\ stackDepth' = [stackDepth EXCEPT ![t] = 0]
    /\ UNCHANGED <<target_arch, StackWalkExAvail, lock, capVars, probe>>

\* Lines 94-105: the context of the calling thread is captured. The depth of
\* the thread's stack at this moment is the environment's.
trace_capture(t) ==
    /\ pc[t] = "Start"
    /\ \E c \in CapturedContexts(target_arch), d \in 0..MaxDepth :
         /\ context' = [context EXCEPT ![t] = c]
         /\ stackDepth' = [stackDepth EXCEPT ![t] = d]
    /\ pc' = [pc EXCEPT ![t] = "Init"]
    /\ UNCHANGED <<target_arch, StackWalkExAvail, lock, frame, image, walker,
                   nprim, ninit, left, emitted, cbStop, cause, initOk,
                   capVars, probe>>

\* Mutant: Err(()) does not return; the walk goes on without a handle.
trace_init_ignores_err(t) ==
    /\ pc[t] = "Init"
    /\ \E r \in dbghelp_init(t) :
         /\ lock' = r.lock
         /\ initOk' = [initOk EXCEPT ![t] = IF r.ok THEN "ok" ELSE "err"]
         /\ pc' = [pc EXCEPT ![t] = "Select"]
    /\ UNCHANGED <<target_arch, StackWalkExAvail, context, stackDepth, frame,
                   image, walker, nprim, ninit, left, emitted, cbStop, cause,
                   capVars, probe>>

\* Mutant: the handle is a temporary, dropped at the end of the statement.
trace_init_drops_handle(t) ==
    /\ pc[t] = "Init"
    /\ \E r \in dbghelp_init(t) :
         /\ lock' = NoThread
         /\ initOk' = [initOk EXCEPT ![t] = IF r.ok THEN "ok" ELSE "err"]
         /\ pc' = [pc EXCEPT ![t] = IF r.ok THEN "Select" ELSE "Unavailable"]
    /\ UNCHANGED <<target_arch, StackWalkExAvail, context, stackDepth, frame,
                   image, walker, nprim, ninit, left, emitted, cbStop, cause,
                   capVars, probe>>

\* Lines 108-111: Ok(dbghelp) keeps the handle in a local that lives to the
\* end of the function; Err(()) returns.
trace_init(t) ==
    /\ pc[t] = "Init"
    /\ \E r \in dbghelp_init(t) :
         /\ lock' = r.lock
         /\ initOk' = [initOk EXCEPT ![t] = IF r.ok THEN "ok" ELSE "err"]
         /\ pc' = [pc EXCEPT ![t] = IF r.ok THEN "Select" ELSE "Unavailable"]
    /\ UNCHANGED <<target_arch, StackWalkExAvail, context, stackDepth, frame,
                   image, walker, nprim, ninit, left, emitted, cbStop, cause,
                   capVars, probe>>

\* Mutant: the StackWalkEx arm builds the Legacy record.
trace_select_old_record(t) ==
    /\ pc[t] = "Select"
    /\ IF StackWalkEx_lookup
       THEN /\ walker' = [walker EXCEPT ![t] = "StackWalkEx"]
            /\ frame' = [frame EXCEPT ![t] = FrameOld(ZeroedStackFrame)]
       ELSE /\ walker' = [walker EXCEPT ![t] = "StackWalk64"]
            /\ frame' = [frame EXCEPT ![t] = FrameOld(ZeroedStackFrame)]
    /\ pc' = [pc EXCEPT ![t] = "StrategySelected"]
    /\ UNCHANGED <<target_arch, StackWalkExAvail, lock, context, stackDepth,
                   image, nprim, ninit, left, emitted, cbStop, cause, initOk,
                   capVars, probe>>

\* Lines 143-147 / 172-175: the match on StackWalkEx() picks the arm, and the
\* arm builds the zeroed record of its variant.
trace_select(t) ==
    /\ pc[t] = "Select"
    /\ IF StackWalkEx_lookup
       THEN /\ walker' = [walker EXCEPT ![t] = "StackWalkEx"]
            /\ frame' = [frame EXCEPT ![t] = FrameNew(ZeroedStackFrame)]
       ELSE /\ walker' = [walker EXCEPT ![t] = "StackWalk64"]
            /\ frame' = [frame EXCEPT ![t] = FrameOld(ZeroedStackFrame)]
    /\ pc' = [pc EXCEPT ![t] = "StrategySelected"]
    /\ UNCHANGED <<target_arch, StackWalkExAvail, lock, context, stackDepth,
                   image, nprim, ninit, left, emitted, cbStop, cause, initOk,
                   capVars, probe>>

\* The tag the arm's `match &mut frame.inner` expects; any other is
\* unreachable!().
ArmTag(w) == IF w = "StackWalkEx" THEN "New" ELSE "Old"

\* Mutant: a do-while loop, the body entered before the first primitive call.
trace_init_frame_body_first(t) ==
    /\ pc[t] = "StrategySelected"
    /\ LET r == init_frame(frame[t], context[t]) IN
         /\ frame' = [frame EXCEPT ![t] = r.frame]
         /\ image' = [image EXCEPT ![t] = r.image]
         /\ IF r.frame.tag = ArmTag(walker[t])
            THEN /\ pc' = [pc EXCEPT ![t] = "Visit"]
                 /\ lock' = lock
            ELSE /\ pc' = [pc EXCEPT ![t] = "Panic"]
                 /\ lock' = dbghelp_drop(t)
    /\ ninit' = [ninit EXCEPT ![t] = @ + 1]
    /\ UNCHANGED <<target_arch, StackWalkExAvail, context, stackDepth, walker,
                   nprim, left, emitted, cbStop, cause, initOk, capVars, probe>>

\* Lines 148-152 / 176-180: init_frame, then frame_ptr from the match.
trace_init_frame(t) ==
    /\ pc[t] = "StrategySelected"
    /\ LET r == init_frame(frame[t], context[t]) IN
         /\ frame' = [frame EXCEPT ![t] = r.frame]
         /\ image' = [image EXCEPT ![t] = r.image]
         /\ IF r.frame.tag = ArmTag(walker[t])
            THEN /\ pc' = [pc EXCEPT ![t] = "Walking"]
                 /\ lock' = lock
            ELSE /\ pc' = [pc EXCEPT ![t] = "Panic"]
                 /\ lock' = dbghelp_drop(t)
    /\ ninit' = [ninit EXCEPT ![t] = @ + 1]
    /\ UNCHANGED <<target_arch, StackWalkExAvail, context, stackDepth, walker,
                   nprim, left, emitted, cbStop, cause, initOk, capVars, probe>>

\* Mutant: a loop with no exit on FALSE; the primitive is called again.
trace_walk_retries(t) ==
    /\ pc[t] = "Walking"
    /\ nprim' = [nprim EXCEPT ![t] = IF @ <= MaxDepth THEN @ + 1 ELSE @]
    /\ \E r \in StackWalk(frame[t], nprim[t], stackDepth[t]) :
         IF r.ret
         THEN /\ frame' = [frame EXCEPT ![t] = r.frame]
              /\ left' = [left EXCEPT ![t] = Append(@, r.frame)]
              /\ pc' = [pc EXCEPT ![t] = "Visit"]
              /\ UNCHANGED <<lock, cause>>
         ELSE /\ pc' = [pc EXCEPT ![t] = "Walking"]
              /\ UNCHANGED <<frame, left, lock, cause>>
    /\ UNCHANGED <<target_arch, StackWalkExAvail, context, stackDepth, image,
                   walker, ninit, emitted, cbStop, initOk, capVars, probe>>

\* Mutant: a frame that cannot be resolved is reported by panicking.
trace_walk_panics_unresolved(t) ==
    /\ pc[t] = "Walking"
    /\ nprim' = [nprim EXCEPT ![t] = @ + 1]
    /\ \E r \in StackWalk(frame[t], nprim[t], stackDepth[t]) :
         IF r.ret
         THEN /\ frame' = [frame EXCEPT ![t] = r.frame]
              /\ left' = [left EXCEPT ![t] = Append(@, r.frame)]
              /\ pc' = [pc EXCEPT ![t] = "Visit"]
              /\ UNCHANGED <<lock, cause>>
         ELSE /\ pc' = [pc EXCEPT ![t] =
                          IF r.cause = "unresolved" THEN "Panic" ELSE "Done"]
              /\ cause' = [cause EXCEPT ![t] = r.cause]
              /\ lock' = dbghelp_drop(t)
              /\ UNCHANGED <<frame, left>>
    /\ UNCHANGED <<target_arch, StackWalkExAvail, context, stackDepth, image,
                   walker, ninit, emitted, cbStop, initOk, capVars, probe>>

\* Lines 154-166 / 182-193: the loop condition calls the primitive on the
\* record; TRUE enters the body, anything else leaves the loop and trace
\* returns, dropping the handle.
trace_walk(t) ==
    /\ pc[t] = "Walking"
    /\ nprim' = [nprim EXCEPT ![t] = @ + 1]
    /\ \E r \in StackWalk(frame[t], nprim[t], stackDepth[t]) :
         IF r.ret
         THEN /\ frame' = [frame EXCEPT ![t] = r.frame]
              /\ left' = [left EXCEPT ![t] = Append(@, r.frame)]
              /\ pc' = [pc EXCEPT ![t] = "Visit"]
              /\ UNCHANGED <<lock, cause>>
         ELSE /\ pc' = [pc EXCEPT ![t] = "Done"]
              /\ cause' = [cause EXCEPT ![t] = r.cause]
              /\ lock' = dbghelp_drop(t)
              /\ UNCHANGED <<frame, left>>
    /\ UNCHANGED <<target_arch, StackWalkExAvail, context, stackDepth, image,
                   walker, ninit, emitted, cbStop, initOk, capVars, probe>>

\* Mutant: the visitor's answer is dropped; the loop goes on after false.
trace_cb_ignores_stop(t) ==
    /\ pc[t] = "Visit"
    /\ emitted' = [emitted EXCEPT ![t] = Append(@, frame[t])]
    /\ \E keep \in BOOLEAN :
         IF keep
         THEN /\ pc' = [pc EXCEPT ![t] = "Walking"]
              /\ UNCHANGED <<lock, cbStop>>
         ELSE /\ pc' = [pc EXCEPT ![t] = "Walking"]
              /\ cbStop' = [cbStop EXCEPT ![t] = Len(emitted[t]) + 1]
              /\ lock' = lock
    /\ UNCHANGED <<target_arch, StackWalkExAvail, context, stackDepth, frame,
                   image, walker, nprim, ninit, left, cause, initOk, capVars,
                   probe>>

\* Lines 167-169 / 194-196: cb(&frame); false breaks out of the loop and
\* trace returns, dropping the handle.
trace_cb(t) ==
    /\ pc[t] = "Visit"
    /\ emitted' = [emitted EXCEPT ![t] = Append(@, frame[t])]
    /\ \E keep \in BOOLEAN :
         IF keep
         THEN /\ pc' = [pc EXCEPT ![t] = "Walking"]
              /\ UNCHANGED <<lock, cbStop>>
         ELSE /\ pc' = [pc EXCEPT ![t] = "Aborted"]
              /\ cbStop' = [cbStop EXCEPT ![t] = Len(emitted[t]) + 1]
              /\ lock' = dbghelp_drop(t)
    /\ UNCHANGED <<target_arch, StackWalkExAvail, context, stackDepth, frame,
                   image, walker, nprim, ninit, left, cause, initOk, capVars,
                   probe>>

\* ------------------------------------------------------------- walk spec
CapIdle ==
    /\ cpu = <<>>
    /\ mem = <<>>
    /\ ip_idx = 0
    /\ site = [kind |-> "none"]
ProbeIdle == probe = [stage |-> "none"]
WalkIdle ==
    /\ lock = NoThread
    /\ pc = [t \in Threads |-> "Start"]
    /\ context = [t \in Threads |-> ZeroedContext(target_arch)]
    /\ stackDepth = [t \in Threads |-> 0]
    /\ frame = [t \in Threads |-> NoFrame]
    /\ image = [t \in Threads |-> "none"]
    /\ walker = [t \in Threads |-> "none"]
    /\ nprim = [t \in Threads |-> 0]
    /\ ninit = [t \in Threads |-> 0]
    /\ left = [t \in Threads |-> <<>>]
    /\ emitted = [t \in Threads |-> <<>>]
    /\ cbStop = [t \in Threads |-> 0]
    /\ cause = [t \in Threads |-> "none"]
    /\ initOk = [t \in Threads |-> "pending"]

Init ==
    /\ target_arch \in Archs
    /\ StackWalkExAvail \in BOOLEAN
    /\ WalkIdle
    /\ CapIdle
    /\ ProbeIdle

Next ==
    \E t \in Threads :
        \/ trace_call(t)
        \/ trace_capture(t)
        \/ trace_init(t)
        \/ trace_select(t)
        \/ trace_init_frame(t)
        \/ trace_walk(t)
        \/ trace_cb(t)

Spec == Init /\ [][Next]_vars

\* A thread inside trace keeps running: the call is synchronous and nothing in
\* it waits, except dbghelp::init() for the lock. Calling trace again is up
\* to the caller.
trace_steps(t) ==
    \/ trace_capture(t)
    \/ trace_init(t)
    \/ trace_select(t)
    \/ trace_init_frame(t)
    \/ trace_walk(t)
    \/ trace_cb(t)
\* One thread calling trace again and again, the other never calling it: a
\* walk holds the lock, so no other thread's step can change what it does.
SoloThread == "t1"
LiveNext == trace_call(SoloThread) \/ trace_steps(SoloThread)
LiveSpec == Init /\ [][LiveNext]_vars /\ WF_vars(trace_steps(SoloThread))

\* -------------------------------------------------- init_frame on its own
\* A zeroed record of either variant and any CONTEXT of the build target,
\* then init_frame.
InitFrameInit ==
    /\ target_arch \in Archs
    /\ StackWalkExAvail = FALSE
    /\ WalkIdle
    /\ CapIdle
    /\ probe \in {[stage |-> "zeroed", frame |-> f, ctx |-> c, image |-> "none"] :
                    f \in {FrameNew(ZeroedStackFrame), FrameOld(ZeroedStackFrame)},
                    c \in Contexts(target_arch)}

call_init_frame ==
    /\ probe.stage = "zeroed"
    /\ LET r == init_frame(probe.frame, probe.ctx) IN
         probe' = [stage |-> "initialized", frame |-> r.frame,
                   ctx |-> probe.ctx, image |-> r.image]
    /\ UNCHANGED <<walkVars, capVars>>

InitFrameSpec == InitFrameInit /\ [][call_init_frame]_vars

\* ---------------------------------------------------- rtl_capture_context
\* Byte offsets of the fields of the x86 CONTEXT.
SEGGS == 140
SEGFS == 144
SEGES == 148
SEGDS == 152
EDI == 156
ESI == 160
EBX == 164
EDX == 168
ECX == 172
EAX == 176
EBP == 180
EIP == 184
SEGCS == 188
EFLAGS == 192
ESP == 196
SEGSS == 200
CONTEXT_FLAGS == 0
CONTEXT_FULL == 65543

\* The instructions of the asm! block, operands as written.
Push(r) == [op |-> "push", src |-> r]
Pop(r) == [op |-> "pop", dst |-> r]
Load(r, b, d) == [op |-> "load", dst |-> r, base |-> b, disp |-> d]
Store(b, d, r) == [op |-> "store", base |-> b, disp |-> d, src |-> r]
StoreSeg(b, d, r) == [op |-> "storeseg", base |-> b, disp |-> d, src |-> r]
StoreImm(b, d, v) == [op |-> "storeimm", base |-> b, disp |-> d, imm |-> v]
PopMem(b, d) == [op |-> "popmem", base |-> b, disp |-> d]
Lea(r, b, d) == [op |-> "lea", dst |-> r, base |-> b, disp |-> d]
Pushf == [op |-> "pushf"]
Ret(n) == [op |-> "ret", n |-> n]

\* Mutant: the two reads through ebp are exchanged.
rtl_capture_context_ebp_reads_swapped ==
    << Push("ebx"),
       Load("ebx", "esp", 8),
       Store("ebx", EAX, "eax"),
       Load("eax", "esp", 0),
       Store("ebx", EBX, "eax"),
       Store("ebx", ECX, "ecx"),
       Store("ebx", EDX, "edx"),
       Store("ebx", ESI, "esi"),
       Store("ebx", EDI, "edi"),
       StoreSeg("ebx", SEGCS, "cs"),
       StoreSeg("ebx", SEGDS, "ds"),
       StoreSeg("ebx", SEGES, "es"),
       StoreSeg("ebx", SEGFS, "fs"),
       StoreSeg("ebx", SEGGS, "gs"),
       StoreSeg("ebx", SEGSS, "ss"),
       Pushf,
       PopMem("ebx", EFLAGS),
       Load("eax", "ebp", 4),
       Store("ebx", EBP, "eax"),
       Load("eax", "ebp", 0),
       Store("ebx", EIP, "eax"),
       Lea("eax", "ebp", 8),
       Store("ebx", ESP, "eax"),
       StoreImm("ebx", CONTEXT_FLAGS, CONTEXT_FULL),
       Pop("ebx"),
       Ret(4) >>

rtl_capture_context ==
    << Push("ebx"),
       Load("ebx", "esp", 8),
       Store("ebx", EAX, "eax"),
       Load("eax", "esp", 0),
       Store("ebx", EBX, "eax"),
       Store("ebx", ECX, "ecx"),
       Store("ebx", EDX, "edx"),
       Store("ebx", ESI, "esi"),
       Store("ebx", EDI, "edi"),
       StoreSeg("ebx", SEGCS, "cs"),
       StoreSeg("ebx", SEGDS, "ds"),
       StoreSeg("ebx", SEGES, "es"),
       StoreSeg("ebx", SEGFS, "fs"),
       StoreSeg("ebx", SEGGS, "gs"),
       StoreSeg("ebx", SEGSS, "ss"),
       Pushf,
       PopMem("ebx", EFLAGS),
       Load("eax", "ebp", 0),
       Store("ebx", EBP, "eax"),
       Load("eax", "ebp", 4),
       Store("ebx", EIP, "eax"),
       Lea("eax", "ebp", 8),
       Store("ebx", ESP, "eax"),
       StoreImm("ebx", CONTEXT_FLAGS, CONTEXT_FULL),
       Pop("ebx"),
       Ret(4) >>

\* One x86 instruction on the machine state [cpu, mem]. Memory is a function
\* on dword addresses; a segment register store writes the low 16 bits of
\* the dword only.
Exec(ins, c, m) ==
    CASE ins.op = "push" ->
           [cpu |-> [c EXCEPT !["esp"] = @ - 4],
            mem |-> [m EXCEPT ![c["esp"] - 4] = c[ins.src]]]
      [] ins.op = "pushf" ->
           [cpu |-> [c EXCEPT !["esp"] = @ - 4],
            mem |-> [m EXCEPT ![c["esp"] - 4] = c["eflags"]]]
      [] ins.op = "pop" ->
           [cpu |-> [c EXCEPT ![ins.dst] = m[c["esp"]], !["esp"] = @ + 4],
            mem |-> m]
      [] ins.op = "popmem" ->
           [cpu |-> [c EXCEPT !["esp"] = @ + 4],
            mem |-> [m EXCEPT ![c[ins.base] + ins.disp] = m[c["esp"]]]]
      [] ins.op = "load" ->
           [cpu |-> [c EXCEPT ![ins.dst] = m[c[ins.base] + ins.disp]],
            mem |-> m]
      [] ins.op = "lea" ->
           [cpu |-> [c EXCEPT ![ins.dst] = c[ins.base] + ins.disp],
            mem |-> m]
      [] ins.op = "store" ->
           [cpu |-> c,
            mem |-> [m EXCEPT ![c[ins.base] + ins.disp] = c[ins.src]]]
      [] ins.op = "storeseg" ->
           [cpu |-> c,
            mem |-> [m EXCEPT ![c[ins.base] + ins.disp] =
                                  (@ \div 65536) * 65536 + c[ins.src]]]
      [] ins.op = "storeimm" ->
           [cpu |-> c,
            mem |-> [m EXCEPT ![c[ins.base] + ins.disp] = ins.imm]]
      [] ins.op = "ret" ->
           [cpu |-> [c EXCEPT !["eip"] = m[c["esp"]],
                              !["esp"] = @ + 4 + ins.n],
            mem |-> m]

\* The call site (trace, line 103, inlined into a routine F called from G).
\* F holds the 16-byte aligned MyContext local, so it is compiled with the
\* standard frame: G's call pushes the return address, F pushes G's ebp and
\* makes ebp name that slot, then lowers esp over its locals (`pad` bytes of
\* alignment and the zeroed CONTEXT), pushes the CONTEXT's address and calls.
Regs == {"eax", "ebx", "ecx", "edx", "esi", "edi", "ebp", "esp", "eip",
         "eflags", "cs", "ds", "es", "fs", "gs", "ss"}
CtxBytes == SEGSS + 4
StackTops == {256}
Cells(top) == {top + 4 - 4 * k : k \in 0..((top + 4) \div 4)}

CallSite(top, fpG, retF, retAddr, pad, eax, ebx) ==
    LET m0 == [a \in Cells(top) |-> IF a = top THEN 7 ELSE 0]
        c0 == [r \in Regs |->
                 CASE r = "ebp" -> fpG
                   [] r = "esp" -> top
                   [] r = "eax" -> eax
                   [] r = "ebx" -> ebx
                   [] r = "ecx" -> 31
                   [] r = "edx" -> 41
                   [] r = "esi" -> 51
                   [] r = "edi" -> 61
                   [] r = "eflags" -> 514
                   [] r = "cs" -> 27
                   [] r = "fs" -> 59
                   [] r = "gs" -> 0
                   [] r = "eip" -> 0
                   [] OTHER -> 35]
        \* G: call F
        c1 == [c0 EXCEPT !["esp"] = @ - 4]
        m1 == [m0 EXCEPT ![c1["esp"]] = retF]
        \* F: push ebp; mov ebp, esp
        s2 == Exec(Push("ebp"), c1, m1)
        c3 == [s2.cpu EXCEPT !["ebp"] = s2.cpu["esp"]]
        \* F: locals, the CONTEXT lowest
        c4 == [c3 EXCEPT !["esp"] = @ - pad - CtxBytes]
        ctxPtr == c4["esp"]
        \* F: push &mut context.0; call rtl_capture_context
        c5 == [c4 EXCEPT !["esp"] = @ - 4]
        m5 == [s2.mem EXCEPT ![c5["esp"]] = ctxPtr]
        c6 == [c5 EXCEPT !["esp"] = @ - 4]
        m6 == [m5 EXCEPT ![c6["esp"]] = retAddr]
    IN  [cpu |-> c6, mem |-> m6,
         site |-> [kind |-> "x86", context |-> ctxPtr, retAddr |-> retAddr,
                   callerRet |-> retF, callerFp |-> fpG, espAtCall |-> top,
                   regs |-> c6]]

CaptureInit ==
    /\ target_arch = "x86"
    /\ StackWalkExAvail = FALSE
    /\ WalkIdle
    /\ ProbeIdle
    /\ ip_idx = 1
    /\ \E top \in StackTops, up \in {8, 24},
          retF \in {4001, 4002}, pad \in {0, 16},
          eax \in {11, 12}, ebx \in {21, 22} :
         LET s == CallSite(top, top + up, retF, 5001, pad, eax, ebx) IN
           /\ cpu = s.cpu
           /\ mem = s.mem
           /\ site = s.site

\* The routine runs one instruction at a time, up to its ret.
asm_step ==
    /\ ip_idx \in 1..Len(rtl_capture_context)
    /\ LET s == Exec(rtl_capture_context[ip_idx], cpu, mem) IN
         /\ cpu' = s.cpu
         /\ mem' = s.mem
    /\ ip_idx' = ip_idx + 1
    /\ UNCHANGED <<walkVars, site, probe>>

CaptureSpec == CaptureInit /\ [][asm_step]_vars

\* The CONTEXT field at byte offset `off`, and the routine having returned.
Captured(off) == mem[site.context + off]
Returned == site.kind = "x86" /\ ip_idx = Len(rtl_capture_context) + 1

\* ---------------------------------------------------------------- claims
Walkers == {"StackWalkEx", "StackWalk64"}
InWalk(t) == pc[t] \in {"Select", "StrategySelected", "Walking", "Visit"}
ChosenWalker == IF StackWalkExAvail THEN "StackWalkEx" ELSE "StackWalk64"

\* C1: when dbghelp::init() fails, trace returns with no frame emitted and no
\* walking primitive called; and whenever a frame was emitted, init()
\* had succeeded.
C1_InitFailureYieldsNoFrames ==
    \A t \in Threads :
        /\ initOk[t] = "err" =>
             /\ pc[t] = "Unavailable"
             /\ emitted[t] = <<>>
             /\ nprim[t] = 0
             /\ walker[t] = "none"
        /\ Len(emitted[t]) >= 1 => initOk[t] = "ok"
C1_Witness ==
    \E t, u \in Threads :
        /\ pc[t] = "Unavailable" /\ initOk[t] = "err"
        /\ Len(emitted[u]) >= 1 /\ initOk[u] = "ok"

\* C2: when the visitor returns false on its k-th call (k >= 1), exactly k
\* frames are emitted, the primitive was called exactly k times, and no
\* further call follows; with either primitive.
C2_StopAfterKFrames ==
    \A t \in Threads :
        cbStop[t] > 0 =>
            /\ pc[t] = "Aborted"
            /\ Len(emitted[t]) = cbStop[t]
            /\ nprim[t] = cbStop[t]
            /\ walker[t] \in Walkers
C2_Witness == \E t \in Threads : cbStop[t] = 2 /\ pc[t] = "Aborted"

\* C3: the variant is fixed by the probe for StackWalkEx before the first
\* primitive call (New with StackWalkEx when available, Old with StackWalk64
\* otherwise), every frame of the walk has it, and unreachable!() is never
\* taken.
C3_VariantFixedPerWalk ==
    \A t \in Threads :
        /\ pc[t] # "Panic"
        /\ nprim[t] > 0 => walker[t] \in Walkers
        /\ walker[t] # "none" =>
             /\ walker[t] = ChosenWalker
             /\ frame[t].tag = (IF StackWalkExAvail THEN "New" ELSE "Old")
             /\ \A i \in 1..Len(emitted[t]) : emitted[t][i].tag = frame[t].tag
             /\ \A i \in 1..Len(left[t]) : left[t][i].tag = frame[t].tag
C3_Witness ==
    \E t \in Threads :
        Len(emitted[t]) >= 2 /\ frame[t].tag = "New" /\ walker[t] = "StackWalkEx"

\* C4 (as stated): every frame handed to the visitor is flat on all three
\* address fields.
C4_EveryEmittedFrameFlat ==
    \A t \in Threads : \A i \in 1..Len(emitted[t]) : AllFlat(emitted[t][i])
\* C4 (amended): the record given to the first primitive call is flat on all
\* three address fields, and every frame handed to the visitor carries
\* exactly the modes the primitive left in it: it is flat whenever the
\* primitive left it flat.
C4_FlatUnlessPrimitiveChangesMode ==
    \A t \in Threads :
        /\ (pc[t] = "Walking" /\ nprim[t] = 0) => AllFlat(frame[t])
        /\ Len(emitted[t]) <= Len(left[t])
        /\ \A i \in 1..Len(emitted[t]) :
             /\ addr_pc(emitted[t][i]).Mode = addr_pc(left[t][i]).Mode
             /\ addr_stack(emitted[t][i]).Mode = addr_stack(left[t][i]).Mode
             /\ addr_frame(emitted[t][i]).Mode = addr_frame(left[t][i]).Mode
             /\ AllFlat(left[t][i]) => AllFlat(emitted[t][i])
C4_Witness ==
    \E t \in Threads :
        /\ Len(emitted[t]) >= 2
        /\ AllFlat(emitted[t][1])
        /\ ~AllFlat(emitted[t][2])

\* C6: a walk whose visitor never returns false returns by itself: every
\* walk that has started ends at a primitive call that does not return TRUE
\* (Done), unless the visitor stopped it.
C6_WalkTerminates ==
    \A t \in Threads : (pc[t] = "Walking") ~> (pc[t] = "Done" \/ cbStop[t] > 0)
C6_Witness ==
    \E t \in Threads :
        /\ pc[t] = "Done"
        /\ cbStop[t] = 0
        /\ Len(emitted[t]) = stackDepth[t]
        /\ stackDepth[t] >= 2

\* C7: a primitive call that does not return TRUE ends the walk as Done
\* whatever the cause: no visitor call for that step, no further primitive
\* call, no panic, the handle dropped, and the visitor has seen exactly the
\* frames the successful calls left.
C7_FailureIsOrdinaryTermination ==
    \A t \in Threads :
        /\ pc[t] # "Panic"
        /\ cause[t] # "none" => pc[t] = "Done"
        /\ pc[t] = "Done" =>
             /\ cause[t] \in {"exhausted", "unresolved"}
             /\ nprim[t] = Len(left[t]) + 1
             /\ emitted[t] = left[t]
             /\ lock # t
C7_Witness ==
    \E t, u \in Threads :
        /\ pc[t] = "Done" /\ cause[t] = "exhausted"
        /\ pc[u] = "Done" /\ cause[u] = "unresolved"
        /\ Len(emitted[t]) >= 1
        /\ emitted[t] = emitted[u]

\* C9: the handle is held from dbghelp::init() to the return of trace,
\* over every primitive and visitor call; so two trace calls are never in
\* their walks at the same time.
C9_HandleHeldForWholeWalk ==
    \A t \in Threads :
        /\ InWalk(t) => lock = t
        /\ pc[t] \in Terminal \cup {"Start", "Init"} => lock # t
        /\ \A u \in Threads : (InWalk(t) /\ InWalk(u)) => t = u
C9_Witness ==
    \E t, u \in Threads :
        /\ t # u
        /\ pc[t] = "Visit" /\ Len(emitted[t]) >= 1
        /\ pc[u] = "Init"

\* C10: primitive and visitor calls alternate, the primitive first; the
\* visitor gets the record as the preceding successful call left it;
\* init_frame runs once, before the first primitive call; at return the
\* primitive was called as often as the visitor (Aborted) or once more (Done).
C10_PrimitiveAndVisitorAlternate ==
    \A t \in Threads :
        /\ pc[t] \in {"Start", "Init", "Select", "StrategySelected", "Unavailable"} =>
             (ninit[t] = 0 /\ nprim[t] = 0 /\ emitted[t] = <<>>)
        /\ pc[t] \in {"Walking", "Visit", "Done", "Aborted"} => ninit[t] = 1
        /\ pc[t] = "Walking" => (nprim[t] = Len(emitted[t]) /\ left[t] = emitted[t])
        /\ pc[t] = "Visit" =>
             /\ nprim[t] = Len(emitted[t]) + 1
             /\ Len(left[t]) = nprim[t]
             /\ frame[t] = left[t][nprim[t]]
             /\ emitted[t] = SubSeq(left[t], 1, Len(emitted[t]))
        /\ pc[t] = "Aborted" => (nprim[t] = Len(emitted[t]) /\ left[t] = emitted[t])
        /\ pc[t] = "Done" => (nprim[t] = Len(emitted[t]) + 1 /\ left[t] = emitted[t])
C10_Witness ==
    \E t, u \in Threads :
        /\ pc[t] = "Aborted" /\ Len(emitted[t]) = 2
        /\ pc[u] = "Done" /\ Len(emitted[u]) = 2

\* C5: for every CONTEXT with program counter P, stack pointer S and frame
\* pointer F and for a zeroed record of either variant, right after
\* init_frame ip() = P, sp() = S, symbol_address() = P, the frame-pointer
\* field holds F, the variant is unchanged and the result is the Architecture
\* Tag of the build target.
C5_InitFrameExposesContext ==
    probe.stage = "initialized" =>
        /\ ip(probe.frame) = probe.ctx[PcReg(target_arch)]
        /\ sp(probe.frame) = probe.ctx[SpReg(target_arch)]
        /\ symbol_address(probe.frame) = probe.ctx[PcReg(target_arch)]
        /\ addr_frame(probe.frame).Offset = probe.ctx[FpReg(target_arch)]
        /\ probe.image = ArchTag(target_arch)
C5_Witness ==
    /\ probe.stage = "initialized"
    /\ probe.frame.tag = "Old"
    /\ target_arch = "x86_64"
    /\ probe.ctx["Rip"] = Pow2(Bits64) - 1
    /\ probe.ctx["Rsp"] = 1
    /\ probe.ctx["Rbp"] = 2

\* C8: at every call site, when rtl_capture_context returns, the CONTEXT's
\* Eip is the return address of the calling routine and its Ebp the frame
\* pointer saved in the calling routine's frame (the caller's), both read
\* through ebp, and its Esp is the stack pointer at the time the calling
\* routine was called; the general registers are stored as they stood at the
\* call, and the routine returns to its caller with ebx, ebp and the stack
\* as the stdcall convention leaves them.
C8_CaptureMatchesFrameChain ==
    Returned =>
        /\ Captured(EIP) = site.callerRet
        /\ Captured(EBP) = site.callerFp
        /\ Captured(ESP) = site.espAtCall
        /\ Captured(EAX) = site.regs["eax"]
        /\ Captured(EBX) = site.regs["ebx"]
        /\ Captured(EFLAGS) = site.regs["eflags"]
        /\ Captured(CONTEXT_FLAGS) = CONTEXT_FULL
        /\ cpu["eip"] = site.retAddr
        /\ cpu["ebx"] = site.regs["ebx"]
        /\ cpu["ebp"] = site.regs["ebp"]
        /\ cpu["esp"] = site.regs["esp"] + 8
C8_Witness ==
    /\ Returned
    /\ site.callerRet = 4002
    /\ site.callerFp = site.espAtCall + 24
    /\ Captured(EIP) # Captured(EBP)

====
